---- MODULE Spec2Model ----
(***************************************************************************)
(* State-machine model of PlantIDApp (src/PlantIDApp/App.tsx): the React   *)
(* component's state, the SQLite table `predictions`, the event handlers   *)
(* of the three screens and the asynchronous capture / pick runs.          *)
(*                                                                         *)
(* An `await` splits a handler in two actions: the part before the await   *)
(* and the continuation that runs when the promise settles.  Everything    *)
(* between two awaits is one atomic action (single JS thread).             *)
(*                                                                         *)
(* Confidences are integers in units of 1/10000; Math.random() is k/RandMax*)
(* for k in 0..RandMax-1; the species label 'Species_n' is the integer n.  *)
(***************************************************************************)
EXTENDS Integers, Sequences, FiniteSets, TLC

\* ---------------------------------------------------------------- bounds
\* Runs (takePicture / pickImage presses that start a run) per behaviour.
MaxRuns == 2
\* Resolution of Math.random(): the draws are 0/RandMax .. (RandMax-1)/RandMax.
RandMax == 1

\* Runs per behaviour of a session that starts over a stored database.
MaxStoredRuns == 1
\* Runs per behaviour when the settling of the camera and gallery calls is
\* checked.
MaxSettleRuns == 1
\* Resolution of Math.random() when simulateInference is checked alone.
InferenceSteps == 10

\* ------------------------------------------------------- program constants
\* Length of the array simulateInference returns (K)
TopK == 3
\* SPECIES_NAMES.length
NumSpecies == 20
\* LIMIT of the history query
HistoryLimit == 20

VARIABLES
    permission,     \* useCameraPermissions(): "null" | "denied" | "granted"
    model,          \* useState<boolean>(false)
    predictions,    \* useState<Prediction[] | null>: <<>> is null
    isLoading,      \* useState<boolean>(true)
    activeTab,      \* "camera" | "results" | "history"
    history,        \* useState<HistoryItem[]>([])
    capturedImage,  \* "null" | "photo" (camera uri) | "asset" (gallery uri)
    initPc,         \* position of initializeApp
    tableExists,    \* the table `predictions` exists in plantid.db
    rows,           \* rows of `predictions`, in rowid order
    seq,            \* AUTOINCREMENT: largest id ever assigned
    clock,          \* CURRENT_TIMESTAMP (seconds) as of the last INSERT
    camPending,     \* takePicture calls suspended at takePictureAsync
    pickPending,    \* pickImage is suspended at launchImageLibraryAsync
    pickStartedBusy,\* that pickImage started while a takePicture was pending
    alertOpen,      \* the 'Clear History' confirmation is showing
    readFailed,     \* a loadHistory query has failed (console.error) so far
    runsStarted,    \* runs started so far (bounded by MaxRuns)
    lastEvent       \* the handler or continuation that ran last

vars == <<permission, model, predictions, isLoading, activeTab, history,
          capturedImage, initPc, tableExists, rows, seq, clock, camPending,
          pickPending, pickStartedBusy, alertOpen, readFailed, runsStarted,
          lastEvent>>

uiVars == <<predictions, isLoading, activeTab, history, capturedImage>>
dbVars == <<tableExists, rows, seq>>
runVars == <<camPending, pickPending, pickStartedBusy, runsStarted>>
initVars == <<permission, model, initPc>>

NoPredictions == <<>>
NoImage == "null"

\* ------------------------------------------------------------ pure helpers

\* Math.random() as the set of draws k, standing for k/RandMax.
Random == 0 .. (RandMax - 1)

\* SPECIES_NAMES[i] for a 0-based index: 'Species_<i+1>'.
SPECIES_NAMES(i) == i + 1

\* Mutant of SimulateInferenceAt: the third band written 0.01 + random * 0.2.
SimulateInferenceWideThird(n, r0, r1, r2, r3) ==
    LET randomIndex == (r0 * NumSpecies) \div n
        confidence1 == 8500 + (r1 * 1000) \div n
        confidence2 == 300 + (r2 * 500) \div n
        confidence3 == 100 + (r3 * 2000) \div n
    IN  << [species |-> SPECIES_NAMES(randomIndex), confidence |-> confidence1],
           [species |-> SPECIES_NAMES((randomIndex + 1) % NumSpecies),
            confidence |-> confidence2],
           [species |-> SPECIES_NAMES((randomIndex + 2) % NumSpecies),
            confidence |-> confidence3] >>

\* simulateInference with the four Math.random() draws made explicit, each
\* draw r standing for r/n.
SimulateInferenceAt(n, r0, r1, r2, r3) ==
    LET randomIndex == (r0 * NumSpecies) \div n
        confidence1 == 8500 + (r1 * 1000) \div n
        confidence2 == 300 + (r2 * 500) \div n
        confidence3 == 100 + (r3 * 200) \div n
    IN  << [species |-> SPECIES_NAMES(randomIndex), confidence |-> confidence1],
           [species |-> SPECIES_NAMES((randomIndex + 1) % NumSpecies),
            confidence |-> confidence2],
           [species |-> SPECIES_NAMES((randomIndex + 2) % NumSpecies),
            confidence |-> confidence3] >>

\* simulateInference at the resolution of the runs' draws.
SimulateInference(r0, r1, r2, r3) == SimulateInferenceAt(RandMax, r0, r1, r2, r3)

\* The results of ORDER BY timestamp DESC over the first n rows of t: the
\* orders of the first n - 1 rows, with row n put after every row of a later
\* timestamp and before every row of an earlier one.  Rows with equal
\* timestamps come in an order SQL leaves unspecified, so each order of the
\* ties is a possible result.
RECURSIVE OrderByTimestampDesc(_, _)
OrderByTimestampDesc(t, n) ==
    IF n = 0
    THEN {<<>>}
    ELSE UNION { { SubSeq(s, 1, p) \o <<t[n]>> \o SubSeq(s, p + 1, Len(s)) :
                     p \in { q \in 0 .. Len(s) :
                               /\ \A i \in 1 .. q :
                                     s[i].timestamp >= t[n].timestamp
                               /\ \A i \in (q + 1) .. Len(s) :
                                     s[i].timestamp <= t[n].timestamp } } :
                 s \in OrderByTimestampDesc(t, n - 1) }

\* LIMIT k: the first k rows of a result, or all of it when it is shorter.
Limit(s, k) == IF Len(s) <= k THEN s ELSE SubSeq(s, 1, k)

\* Mutant of ListRecent: the query without LIMIT 20.
ListRecentNoLimit(t) == OrderByTimestampDesc(t, Len(t))

\* 'SELECT * FROM predictions ORDER BY timestamp DESC LIMIT 20': every result
\* the query may give.
ListRecent(t) ==
    { Limit(s, HistoryLimit) : s \in OrderByTimestampDesc(t, Len(t)) }

\* CURRENT_TIMESTAMP when a statement runs: its resolution is one second, so
\* it is the second of the previous INSERT or a later one (only the order and
\* the equality of timestamps matter, so one later second stands for all).
CurrentTimestamp == {clock, clock + 1}

\* Mutant of InsertedRow: id INTEGER PRIMARY KEY without AUTOINCREMENT, which
\* takes the largest id in the table plus one.
InsertedRowMaxRowid(species, confidence, now) ==
    [id |-> (IF rows = <<>> THEN 0 ELSE rows[Len(rows)].id) + 1,
     species |-> species, confidence |-> confidence, timestamp |-> now]

\* A row of predictions: id, species, confidence, timestamp (87-92).
InsertedRowAt(id, species, confidence, now) ==
    [id |-> id, species |-> species, confidence |-> confidence,
     timestamp |-> now]

\* 'INSERT INTO predictions (species, confidence) VALUES (?, ?)': the row the
\* insert adds (id from AUTOINCREMENT, timestamp from CURRENT_TIMESTAMP).
InsertedRow(species, confidence, now) ==
    InsertedRowAt(seq + 1, species, confidence, now)

\* ------------------------------------------------------------- rendering

\* The message of the Alert.alert call the handler of an event makes, "none"
\* when it makes none (console.error and console.log are not shown).
AlertText(ev) ==
    CASE ev = "permissionDenied" -> "Camera permission is required"
      [] ev = "cameraNotReady" -> "Camera not ready"
      [] ev = "cameraThrow" -> "Failed to capture image"
      [] ev = "pickThrow" -> "Failed to pick image"
      [] ev = "clearHistory" -> "Are you sure you want to delete all predictions?"
      [] ev = "clearDone" -> "History cleared"
      [] ev = "clearFailed" -> "Failed to clear history"
      [] OTHER -> "none"

\* The loading screen is returned while isLoading && model === false.
LoadingScreen == isLoading /\ ~model

\* The tab bar and the screens are rendered.
MainVisible == ~LoadingScreen /\ permission = "granted"

\* The user can press the app's buttons: nothing modal is over them.
UIEnabled == MainVisible /\ ~pickPending /\ ~alertOpen

\* Runs that have started and not finished.
ActiveRuns == camPending + (IF pickPending THEN 1 ELSE 0)

\* ------------------------------------------------------------------ Init
Init ==
    /\ permission = "null"
    /\ model = FALSE
    /\ predictions = NoPredictions
    /\ isLoading = TRUE
    /\ activeTab = "camera"
    /\ history = <<>>
    /\ capturedImage = NoImage
    /\ initPc = "start"
    /\ tableExists = FALSE
    /\ rows = <<>>
    /\ seq = 0
    /\ clock = 0
    /\ camPending = 0
    /\ pickPending = FALSE
    /\ pickStartedBusy = FALSE
    /\ alertOpen = FALSE
    /\ readFailed = FALSE
    /\ runsStarted = 0
    /\ lastEvent = "mount"


\* ------------------------------------------------------------ RecordStore

\* loadHistory over the table contents t: the query's result becomes the
\* displayed history; a failing read (no table, or a storage error) is logged
\* and leaves it as it was.
LoadHistory(t) ==
    \/ /\ tableExists
       /\ \E results \in ListRecent(t) : history' = results
       /\ readFailed' = readFailed
    \/ /\ history' = history
       /\ readFailed' = TRUE

\* savePrediction: the INSERT, then loadHistory(); a failing INSERT (no table,
\* or a storage error) is logged and nothing else happens.  evSaved / evError
\* are the events recorded for the two outcomes.
SavePrediction(species, confidence, evSaved, evError) ==
    \/ /\ tableExists
       /\ \E now \in CurrentTimestamp :
            /\ rows' = Append(rows, InsertedRow(species, confidence, now))
            /\ clock' = now
       /\ seq' = seq + 1
       /\ tableExists' = tableExists
       /\ LoadHistory(rows')
       /\ lastEvent' = evSaved
    \/ /\ UNCHANGED <<dbVars, history, clock, readFailed>>
       /\ lastEvent' = evError

\* Mutant of InitDatabase: the table is dropped and created again.
InitDatabaseRecreates ==
    \E createOk \in BOOLEAN :
        /\ tableExists' = createOk
        /\ rows' = <<>>
        /\ seq' = 0

\* initDatabase: CREATE TABLE IF NOT EXISTS; an error is logged and swallowed.
InitDatabase ==
    \E createOk \in BOOLEAN :
        /\ tableExists' = (tableExists \/ createOk)
        /\ UNCHANGED <<rows, seq>>

\* --------------------------------------------------------- initialization

\* initializeApp up to its first await: the permission request when the
\* permission is not granted, else initDatabase() and the await of loadModel.
InitializeApp ==
    /\ initPc = "start"
    /\ IF permission # "granted"
       THEN /\ initPc' = "awaitPermission"
            /\ UNCHANGED dbVars
       ELSE /\ InitDatabase
            /\ initPc' = "awaitModel"
    /\ lastEvent' = "initializeApp"
    /\ UNCHANGED <<permission, model, uiVars, runVars, clock, readFailed,
                   alertOpen>>

\* requestPermission() settles inside initializeApp: denied halts with
\* isLoading false; granted runs initDatabase() and awaits loadModel().
InitPermissionSettles ==
    /\ initPc = "awaitPermission"
    /\ \E granted \in BOOLEAN :
        IF granted
        THEN /\ permission' = "granted"
             /\ InitDatabase
             /\ initPc' = "awaitModel"
             /\ isLoading' = isLoading
             /\ lastEvent' = "permissionGranted"
        ELSE /\ permission' = "denied"
             /\ isLoading' = FALSE
             /\ initPc' = "halted"
             /\ lastEvent' = "permissionDenied"
             /\ UNCHANGED dbVars
    /\ UNCHANGED <<model, predictions, activeTab, history, capturedImage,
                   runVars, clock, readFailed, alertOpen>>

\* loadModel's timer fires: setModel(true), then initializeApp ends with
\* setIsLoading(false).
LoadModelDone ==
    /\ initPc = "awaitModel"
    /\ model' = TRUE
    /\ isLoading' = FALSE
    /\ initPc' = "done"
    /\ lastEvent' = "modelLoaded"
    /\ UNCHANGED <<permission, predictions, activeTab, history, capturedImage,
                   dbVars, runVars, clock, readFailed, alertOpen>>

\* 'Grant Permission' on the permission screen: requestPermission() alone.
GrantPermission ==
    /\ ~LoadingScreen
    /\ permission = "denied"
    /\ \E granted \in BOOLEAN :
        permission' = IF granted THEN "granted" ELSE "denied"
    /\ lastEvent' = "grantPermission"
    /\ UNCHANGED <<model, initPc, uiVars, dbVars, runVars, clock, readFailed,
                   alertOpen>>

\* ------------------------------------------------------------------- runs

\* Mutant of ClassifyAndSave: savePrediction is given the second prediction.
ClassifyAndSaveSecond(uri, evSaved, evError) ==
    \E r0, r1, r2, r3 \in Random :
        LET predictionResults == SimulateInference(r0, r1, r2, r3)
        IN  /\ capturedImage' = uri
            /\ predictions' = predictionResults
            /\ SavePrediction(predictionResults[2].species,
                              predictionResults[2].confidence,
                              evSaved, evError)
            /\ activeTab' = "results"
            /\ isLoading' = FALSE

\* The part of takePicture and pickImage after an image was obtained:
\* setCapturedImage, simulateInference, setPredictions, savePrediction of
\* the top-1 prediction, setActiveTab('results'), setIsLoading(false).
ClassifyAndSave(uri, evSaved, evError) ==
    \E r0, r1, r2, r3 \in Random :
        LET predictionResults == SimulateInference(r0, r1, r2, r3)
        IN  /\ capturedImage' = uri
            /\ predictions' = predictionResults
            /\ SavePrediction(predictionResults[1].species,
                              predictionResults[1].confidence,
                              evSaved, evError)
            /\ activeTab' = "results"
            /\ isLoading' = FALSE

\* takePicture up to its await: the guard on the camera and the model, then
\* setIsLoading(true) and the call of takePictureAsync.  The capture button
\* is on the camera screen and disabled while isLoading.
TakePicture ==
    /\ UIEnabled
    /\ activeTab = "camera"
    /\ ~isLoading
    /\ IF ~model
       THEN /\ lastEvent' = "cameraNotReady"
            /\ UNCHANGED <<isLoading, camPending, runsStarted>>
       ELSE /\ runsStarted < MaxRuns
            /\ isLoading' = TRUE
            /\ camPending' = camPending + 1
            /\ runsStarted' = runsStarted + 1
            /\ lastEvent' = "takePicture"
    /\ UNCHANGED <<initVars, predictions, activeTab, history, capturedImage,
                   dbVars, clock, readFailed, pickPending, pickStartedBusy, alertOpen>>

\* Mutant of TakePicturePhoto: setCapturedImage(photo.uri) is left out.
TakePicturePhotoKeepsImage ==
    /\ camPending > 0
    /\ camPending' = camPending - 1
    /\ ClassifyAndSave(capturedImage, "cameraSaved", "cameraSaveError")
    /\ UNCHANGED <<initVars, pickPending, pickStartedBusy, alertOpen,
                   runsStarted>>

\* takePictureAsync resolved with a photo that has a uri.
TakePicturePhoto ==
    /\ camPending > 0
    /\ camPending' = camPending - 1
    /\ ClassifyAndSave("photo", "cameraSaved", "cameraSaveError")
    /\ UNCHANGED <<initVars, pickPending, pickStartedBusy, alertOpen,
                   runsStarted>>

\* Mutant of TakePictureFails: setActiveTab('results') placed after the if, so
\* it runs when no photo came back.
TakePictureFailsShowsResults ==
    /\ camPending > 0
    /\ camPending' = camPending - 1
    /\ isLoading' = FALSE
    /\ activeTab' = "results"
    /\ lastEvent' = "cameraNoPhoto"
    /\ UNCHANGED <<initVars, predictions, history, capturedImage,
                   dbVars, clock, readFailed, pickPending, pickStartedBusy, alertOpen,
                   runsStarted>>

\* Mutant of TakePictureFails: setIsLoading(false) is left out of the failing
\* paths.
TakePictureFailsKeepsLoading ==
    /\ camPending > 0
    /\ camPending' = camPending - 1
    /\ \E ev \in {"cameraNoPhoto", "cameraThrow"} : lastEvent' = ev
    /\ UNCHANGED <<initVars, uiVars, dbVars, clock, readFailed, pickPending,
                   pickStartedBusy, alertOpen, runsStarted>>

\* takePictureAsync resolved without a photo (or without a uri), or rejected:
\* only setIsLoading(false) runs, after the if or in the catch.
TakePictureFails ==
    /\ camPending > 0
    /\ camPending' = camPending - 1
    /\ isLoading' = FALSE
    /\ \E ev \in {"cameraNoPhoto", "cameraThrow"} : lastEvent' = ev
    /\ UNCHANGED <<initVars, predictions, activeTab, history, capturedImage,
                   dbVars, clock, readFailed, pickPending, pickStartedBusy, alertOpen,
                   runsStarted>>

\* pickImage up to its await: launchImageLibraryAsync, with no guard at all.
\* The gallery button is on the camera screen and is never disabled.
PickImage ==
    /\ UIEnabled
    /\ activeTab = "camera"
    /\ runsStarted < MaxRuns
    /\ pickPending' = TRUE
    /\ pickStartedBusy' = (camPending > 0)
    /\ runsStarted' = runsStarted + 1
    /\ lastEvent' = "pickImage"
    /\ UNCHANGED <<initVars, uiVars, dbVars, clock, readFailed, camPending,
                   alertOpen>>

\* The picker resolved with an asset: setIsLoading(true), then as a capture.
PickImageAsset ==
    /\ pickPending
    /\ pickPending' = FALSE
    /\ pickStartedBusy' = FALSE
    /\ ClassifyAndSave("asset", "pickSaved", "pickSaveError")
    /\ UNCHANGED <<initVars, camPending, alertOpen, runsStarted>>

\* Mutant of PickImageFails: a cancelled pick resets the captured image.
PickImageFailsResetsImage ==
    /\ pickPending
    /\ pickPending' = FALSE
    /\ pickStartedBusy' = FALSE
    /\ capturedImage' = NoImage
    /\ \E ev \in {"pickCanceled", "pickThrow"} : lastEvent' = ev
    /\ UNCHANGED <<initVars, predictions, isLoading, activeTab, history,
                   dbVars, clock, readFailed, camPending, alertOpen, runsStarted>>

\* The picker was cancelled, resolved without an asset, or rejected: no state
\* is set.
PickImageFails ==
    /\ pickPending
    /\ pickPending' = FALSE
    /\ pickStartedBusy' = FALSE
    /\ \E ev \in {"pickCanceled", "pickThrow"} : lastEvent' = ev
    /\ UNCHANGED <<initVars, uiVars, dbVars, clock, readFailed, camPending, alertOpen,
                   runsStarted>>

\* ---------------------------------------------------------------- screens

\* Mutant of PressCameraTab: the tab also drops the held result.
PressCameraTabDiscards ==
    /\ UIEnabled
    /\ activeTab' = "camera"
    /\ predictions' = NoPredictions
    /\ lastEvent' = "pressCameraTab"
    /\ UNCHANGED <<initVars, isLoading, history, capturedImage,
                   dbVars, runVars, clock, readFailed, alertOpen>>

\* The Camera tab: setActiveTab('camera').
PressCameraTab ==
    /\ UIEnabled
    /\ activeTab' = "camera"
    /\ lastEvent' = "pressCameraTab"
    /\ UNCHANGED <<initVars, predictions, isLoading, history, capturedImage,
                   dbVars, runVars, clock, readFailed, alertOpen>>

\* Mutant of PressResultsTab: the tab without disabled={!predictions}.
PressResultsTabNeverDisabled ==
    /\ UIEnabled
    /\ activeTab' = "results"
    /\ lastEvent' = "pressResultsTab"
    /\ UNCHANGED <<initVars, predictions, isLoading, history, capturedImage,
                   dbVars, runVars, clock, readFailed, alertOpen>>

\* The Results tab, disabled while predictions is null: setActiveTab('results').
PressResultsTab ==
    /\ UIEnabled
    /\ predictions # NoPredictions
    /\ activeTab' = "results"
    /\ lastEvent' = "pressResultsTab"
    /\ UNCHANGED <<initVars, predictions, isLoading, history, capturedImage,
                   dbVars, runVars, clock, readFailed, alertOpen>>

\* The History tab: setActiveTab('history'); the effect on activeTab then
\* calls loadHistory() when the tab has changed to history.
PressHistoryTab ==
    /\ UIEnabled
    /\ activeTab' = "history"
    /\ IF activeTab # "history"
       THEN LoadHistory(rows)
       ELSE UNCHANGED <<history, readFailed>>
    /\ lastEvent' = "pressHistoryTab"
    /\ UNCHANGED <<initVars, predictions, isLoading, capturedImage,
                   dbVars, runVars, clock, alertOpen>>

\* Mutant of IdentifyAnother: setCapturedImage(null) is left out.
IdentifyAnotherKeepsImage ==
    /\ UIEnabled
    /\ activeTab = "results"
    /\ predictions # NoPredictions
    /\ predictions' = NoPredictions
    /\ activeTab' = "camera"
    /\ lastEvent' = "identifyAnother"
    /\ UNCHANGED <<initVars, isLoading, history, capturedImage, dbVars,
                   runVars, clock, readFailed, alertOpen>>

\* 'Identify Another' on the results screen.
IdentifyAnother ==
    /\ UIEnabled
    /\ activeTab = "results"
    /\ predictions # NoPredictions
    /\ predictions' = NoPredictions
    /\ capturedImage' = NoImage
    /\ activeTab' = "camera"
    /\ lastEvent' = "identifyAnother"
    /\ UNCHANGED <<initVars, isLoading, history, dbVars, runVars, clock, readFailed,
                   alertOpen>>

\* 'Start New Scan' on the history screen: setActiveTab('camera').
StartNewScan ==
    /\ UIEnabled
    /\ activeTab = "history"
    /\ activeTab' = "camera"
    /\ lastEvent' = "startNewScan"
    /\ UNCHANGED <<initVars, predictions, isLoading, history, capturedImage,
                   dbVars, runVars, clock, readFailed, alertOpen>>

\* clearHistory: the Clear button, shown on the history screen while the
\* displayed history is not empty, opens the confirmation.
ClearHistory ==
    /\ UIEnabled
    /\ activeTab = "history"
    /\ Len(history) > 0
    /\ alertOpen' = TRUE
    /\ lastEvent' = "clearHistory"
    /\ UNCHANGED <<initVars, uiVars, dbVars, runVars, clock, readFailed>>

\* 'Cancel' in the confirmation.
ClearCancel ==
    /\ alertOpen
    /\ alertOpen' = FALSE
    /\ lastEvent' = "clearCancel"
    /\ UNCHANGED <<initVars, uiVars, dbVars, runVars, clock, readFailed>>

\* Mutant of ClearConfirm: the DELETE runs and setHistory([]) is left out.
ClearConfirmKeepsDisplay ==
    /\ alertOpen
    /\ alertOpen' = FALSE
    /\ \/ /\ tableExists
          /\ rows' = <<>>
          /\ history' = history
          /\ lastEvent' = "clearDone"
       \/ /\ UNCHANGED <<rows, history>>
          /\ lastEvent' = "clearFailed"
    /\ UNCHANGED <<initVars, predictions, isLoading, activeTab, capturedImage,
                   tableExists, seq, runVars, clock, readFailed>>

\* Mutant of ClearConfirm: setHistory([]) runs before the DELETE, so a failing
\* DELETE leaves the display cleared.
ClearConfirmOptimistic ==
    /\ alertOpen
    /\ alertOpen' = FALSE
    /\ history' = <<>>
    /\ \/ /\ tableExists
          /\ rows' = <<>>
          /\ lastEvent' = "clearDone"
       \/ /\ rows' = rows
          /\ lastEvent' = "clearFailed"
    /\ UNCHANGED <<initVars, predictions, isLoading, activeTab, capturedImage,
                   tableExists, seq, runVars, clock, readFailed>>

\* 'Clear' in the confirmation: DELETE FROM predictions, then setHistory([]);
\* a failing DELETE throws before setHistory and is reported.
ClearConfirm ==
    /\ alertOpen
    /\ alertOpen' = FALSE
    /\ \/ /\ tableExists
          /\ rows' = <<>>
          /\ history' = <<>>
          /\ lastEvent' = "clearDone"
       \/ /\ UNCHANGED <<rows, history>>
          /\ lastEvent' = "clearFailed"
    /\ UNCHANGED <<initVars, predictions, isLoading, activeTab, capturedImage,
                   tableExists, seq, runVars, clock, readFailed>>

Next ==
    \/ InitializeApp
    \/ InitPermissionSettles
    \/ LoadModelDone
    \/ GrantPermission
    \/ TakePicture
    \/ TakePicturePhoto
    \/ TakePictureFails
    \/ PickImage
    \/ PickImageAsset
    \/ PickImageFails
    \/ PressCameraTab
    \/ PressResultsTab
    \/ PressHistoryTab
    \/ IdentifyAnother
    \/ StartNewScan
    \/ ClearHistory
    \/ ClearCancel
    \/ ClearConfirm

Spec == Init /\ [][Next]_vars

\* ------------------------------------------ camera and gallery calls settle

\* takePictureAsync settles: its promise resolves (with or without a photo)
\* or rejects.
TakePictureSettles == TakePicturePhoto \/ TakePictureFails

\* launchImageLibraryAsync settles: an asset, a cancelled pick or a rejection.
PickImageSettles == PickImageAsset \/ PickImageFails

\* The state after construction, with MaxSettleRuns of the run budget MaxRuns
\* left.
InitSettles ==
    /\ permission = "null"
    /\ model = FALSE
    /\ predictions = NoPredictions
    /\ isLoading = TRUE
    /\ activeTab = "camera"
    /\ history = <<>>
    /\ capturedImage = NoImage
    /\ initPc = "start"
    /\ tableExists = FALSE
    /\ rows = <<>>
    /\ seq = 0
    /\ clock = 0
    /\ camPending = 0
    /\ pickPending = FALSE
    /\ pickStartedBusy = FALSE
    /\ alertOpen = FALSE
    /\ readFailed = FALSE
    /\ runsStarted = MaxRuns - MaxSettleRuns
    /\ lastEvent = "mount"

\* The program under the assumption that every camera or gallery call
\* eventually resolves or rejects.  The continuation of an await runs once
\* its promise has settled, and a pending call stays pending until then, so
\* weak fairness is what the assumption gives.  Nothing is assumed of the
\* user's actions or of initialization.
SpecSettles ==
    /\ InitSettles
    /\ [][Next]_vars
    /\ WF_vars(TakePictureSettles)
    /\ WF_vars(PickImageSettles)

\* ------------------------------------------------------ a later app start

\* The rows n earlier appends, one second apart, have left in plantid.db.
StoredRows(n) ==
    [i \in 1..n |->
        InsertedRowAt(i, SimulateInference(0, 0, 0, 0)[1].species,
                      SimulateInference(0, 0, 0, 0)[1].confidence, i)]

\* The app starts over a database earlier sessions have filled up to the
\* limit of the history query: the component state is initial, the table
\* exists and holds HistoryLimit rows.  Of the run budget MaxRuns,
\* MaxStoredRuns are left to this session.
InitStored ==
    /\ permission = "null"
    /\ model = FALSE
    /\ predictions = NoPredictions
    /\ isLoading = TRUE
    /\ activeTab = "camera"
    /\ history = <<>>
    /\ capturedImage = NoImage
    /\ initPc = "start"
    /\ tableExists = TRUE
    /\ rows = StoredRows(HistoryLimit)
    /\ seq = HistoryLimit
    /\ clock = HistoryLimit
    /\ camPending = 0
    /\ pickPending = FALSE
    /\ pickStartedBusy = FALSE
    /\ alertOpen = FALSE
    /\ readFailed = FALSE
    /\ runsStarted = MaxRuns - MaxStoredRuns
    /\ lastEvent = "mount"

SpecStored == InitStored /\ [][Next]_vars

\* ---------------------------------------------- simulateInference alone

\* One call of simulateInference with draws at the resolution InferenceSteps;
\* its result is held in predictions.
SimulateInferenceCall ==
    /\ lastEvent = "mount"
    /\ \E r0, r1, r2, r3 \in 0 .. (InferenceSteps - 1) :
          predictions' = SimulateInferenceAt(InferenceSteps, r0, r1, r2, r3)
    /\ lastEvent' = "simulateInference"
    /\ UNCHANGED <<initVars, isLoading, activeTab, history, capturedImage,
                   dbVars, runVars, clock, readFailed, alertOpen>>

SpecInference == Init /\ [][SimulateInferenceCall]_vars

TypeOK ==
    /\ permission \in {"null", "denied", "granted"}
    /\ model \in BOOLEAN
    /\ isLoading \in BOOLEAN
    /\ activeTab \in {"camera", "results", "history"}
    /\ capturedImage \in {"null", "photo", "asset"}
    /\ Len(predictions) \in {0, 3}
    /\ Len(rows) <= HistoryLimit + MaxRuns
    /\ seq \in 0..(HistoryLimit + MaxRuns)
    /\ camPending \in 0..MaxRuns
    /\ clock \in 0..(HistoryLimit + MaxRuns)
    /\ readFailed \in BOOLEAN
    /\ runsStarted \in 0..MaxRuns

\* ----------------------------------------------------------------- claims

\* Events that end a run with an image obtained and classified, and events
\* that end a run before classification.
ClassifiedEvents == {"cameraSaved", "cameraSaveError", "pickSaved", "pickSaveError"}
CaptureFailedEvents == {"cameraNoPhoto", "cameraThrow", "pickCanceled", "pickThrow"}

\* C1: at most one capture->classify->persist run is in progress at any time,
\* counting takePicture and pickImage runs together.
C1_AtMostOneActiveRun == ActiveRuns <= 1

\* C2: an acquisition issued while a run is in progress is rejected: when that
\* pickImage settles it appends no record and changes neither the held
\* predictions nor the active screen.
C2_BusyAcquisitionRejected ==
    [][(pickPending /\ pickStartedBusy /\ ~pickPending')
         => (rows' = rows /\ predictions' = predictions /\ activeTab' = activeTab)]_vars

\* C3: whenever the active screen is Results, the held predictions are
\* non-null.
C3_ResultsHoldsPredictions == activeTab = "results" => predictions # NoPredictions

\* C3 witness: Results is showing the result of a pick that completed while a
\* takePicture run was still in progress (overlapping runs).
C3_Witness ==
    /\ activeTab = "results"
    /\ predictions # NoPredictions
    /\ lastEvent = "pickSaved"
    /\ camPending > 0

\* C4 (as claimed): a run moves the screen to Results only when the append of
\* the top-1 prediction succeeded; a run that ends Failed, a persistence
\* failure included, never changes the screen to Results.
C4_ResultsOnlyWhenSaved ==
    [][(lastEvent' \in (ClassifiedEvents \cup CaptureFailedEvents)
          /\ activeTab # "results" /\ activeTab' = "results")
         => lastEvent' \in {"cameraSaved", "pickSaved"}]_vars

\* C4 (amended): a run moves the screen to Results exactly when an image was
\* obtained and classified, whether or not the append succeeded; a run that
\* fails before classification changes neither the screen nor the held
\* predictions.
C4_ResultsIffClassified ==
    [][/\ lastEvent' \in ClassifiedEvents
            => (activeTab' = "results" /\ predictions' # NoPredictions)
       /\ lastEvent' \in CaptureFailedEvents
            => (activeTab' = activeTab /\ predictions' = predictions)]_vars

\* C4 witness: a camera run whose INSERT failed has put the screen on Results.
C4_Witness ==
    /\ lastEvent = "cameraSaveError"
    /\ activeTab = "results"
    /\ tableExists
    /\ rows = <<>>

\* C5: while a run is in progress the active screen does not change, except
\* Capture -> Results at the completion of the run.
C5_NoScreenChangeWhileRunning ==
    [][(ActiveRuns > 0 /\ activeTab' # activeTab)
         => (activeTab = "camera" /\ activeTab' = "results"
             /\ ActiveRuns' < ActiveRuns)]_vars

\* C6 (as claimed): every transition that leaves Results discards the held
\* predictions.
C6_LeavingResultsDiscards ==
    [][(activeTab = "results" /\ activeTab' # "results")
         => predictions' = NoPredictions]_vars

\* C6 (amended): of the transitions that leave Results only 'Identify Another'
\* discards the held predictions (and image); the Camera tab and the History
\* tab keep them, and so does 'Start New Scan' from History.
C6_OnlyIdentifyAnotherDiscards ==
    [][/\ (activeTab = "results" /\ activeTab' # "results")
            => IF lastEvent' = "identifyAnother"
               THEN predictions' = NoPredictions /\ capturedImage' = NoImage
               ELSE predictions' = predictions /\ predictions' # NoPredictions
       /\ lastEvent' \in {"pressCameraTab", "pressHistoryTab", "startNewScan"}
            => predictions' = predictions]_vars

\* C6 witness: the Camera tab was pressed and a result is still held, so
\* Results was left without discarding it.
C6_Witness ==
    /\ lastEvent = "pressCameraTab"
    /\ activeTab = "camera"
    /\ predictions # NoPredictions

\* Every row of the table t is in the query result res.
ContainsAll(res, t) == \A i \in 1..Len(t) : \E j \in 1..Len(res) : res[j] = t[i]

\* C7: 'Identify Another' sets the screen to Capture and the held predictions
\* and image to null, and leaves the record store and the displayed history
\* unchanged: every stored record is still returned by a history query.
C7_IdentifyAnotherFrame ==
    [][lastEvent' = "identifyAnother"
         => /\ activeTab = "results"
            /\ activeTab' = "camera"
            /\ predictions' = NoPredictions
            /\ capturedImage' = NoImage
            /\ rows' = rows /\ seq' = seq /\ tableExists' = tableExists
            /\ history' = history
            /\ \A res \in ListRecent(rows') :
                 Len(rows) <= HistoryLimit => ContainsAll(res, rows)]_vars

\* C7 witness: 'Identify Another' was taken after a run whose record was
\* appended, and the record is still in the store.
C7_Witness ==
    /\ lastEvent = "identifyAnother"
    /\ activeTab = "camera"
    /\ Len(rows) > 0

\* res is ordered by timestamp descending, ties by id descending.
NewestFirst(res) ==
    \A i, j \in 1..Len(res) :
        i < j => \/ res[i].timestamp > res[j].timestamp
                 \/ res[i].timestamp = res[j].timestamp /\ res[i].id > res[j].id

\* C8: every result of the history query is ordered by timestamp descending
\* with ties broken by id descending, and the record appended last is at its
\* head.
C8_QueryNewestFirst ==
    \A res \in ListRecent(rows) :
        /\ NewestFirst(res)
        /\ rows # <<>> => res[1] = rows[Len(rows)]

\* C9: a confirmed clear that succeeds leaves the store and the displayed
\* history empty, and while the store stays empty the displayed history stays
\* empty (a later history load returns the empty sequence).
C9_ClearEmpties ==
    [][/\ lastEvent' = "clearDone"
            => (rows' = <<>> /\ history' = <<>> /\ ListRecent(rows') = {<<>>})
       /\ (rows = <<>> /\ rows' = <<>>) => history' = <<>>]_vars

\* C9 witness: a clear succeeded after two appends.
C9_Witness ==
    /\ lastEvent = "clearDone"
    /\ seq >= 2
    /\ rows = <<>>

\* C10: a cancelled clear or a failed delete leaves the displayed history and
\* the store unchanged, and the displayed history becomes empty only in a step
\* that leaves the store empty.
C10_NoOptimisticClear ==
    [][/\ lastEvent' \in {"clearCancel", "clearFailed"}
            => (history' = history /\ rows' = rows)
       /\ (history # <<>> /\ history' = <<>>) => rows' = <<>>]_vars

\* C10 witness: the delete failed with a non-empty history on display.
C10_Witness ==
    /\ lastEvent = "clearFailed"
    /\ Len(history) > 0
    /\ Len(rows) > 0

\* C11: no run starts, no classification is performed and no record is
\* appended unless permission is granted, the schema was created and the
\* classifier is ready.
C11_NoRunBeforeInitialized ==
    (ActiveRuns > 0 \/ predictions # NoPredictions \/ rows # <<>>)
        => (permission = "granted" /\ tableExists /\ model)

\* C12: initialization runs permission -> schema creation -> readiness in
\* order and a failed step halts it: the schema is created only with the
\* permission granted, after a denied permission neither the schema is created
\* nor the model loaded, and after a failed schema creation model loading does
\* not run and readiness is never set.
C12_InitOrderedAndHalting ==
    /\ tableExists => permission = "granted"
    /\ model => initPc = "done"
    /\ initPc = "halted" => (~tableExists /\ ~model)
    /\ initPc \in {"awaitModel", "done"} => tableExists

\* Events of a run whose INSERT failed.
SaveErrorEvents == {"cameraSaveError", "pickSaveError"}

\* C13: when the append fails the run's result is still held for display and
\* the failure is surfaced to the user by an alert.
C13_SaveFailureSurfaced ==
    lastEvent \in SaveErrorEvents
        => (predictions # NoPredictions /\ AlertText(lastEvent) # "none")

\* C14: a run that fails before classification appends no record and leaves
\* the store, the displayed history, the held predictions, the captured image
\* and the active screen unchanged (a screen on Capture stays on Capture).
C14_CaptureFailureFrame ==
    [][lastEvent' \in CaptureFailedEvents
         => /\ rows' = rows /\ seq' = seq /\ tableExists' = tableExists
            /\ history' = history
            /\ predictions' = predictions
            /\ capturedImage' = capturedImage
            /\ activeTab' = activeTab
            /\ (activeTab = "camera" => activeTab' = "camera")]_vars

\* C14 witness: a pick was cancelled on the Capture screen while the image and
\* the result of an earlier run are held.
C14_Witness ==
    /\ lastEvent = "pickCanceled"
    /\ activeTab = "camera"
    /\ capturedImage # NoImage
    /\ predictions # NoPredictions

\* C15: a run whose classification and append succeed adds exactly one record,
\* whose species and confidence are those of the first of the predictions the
\* run leaves held (not of the second or third), and no other event adds a
\* record.
C15_TopOnePersisted ==
    [][/\ lastEvent' \in {"cameraSaved", "pickSaved"}
            => /\ Len(rows') = Len(rows) + 1
               /\ SubSeq(rows', 1, Len(rows)) = rows
               /\ rows'[Len(rows')].species = predictions'[1].species
               /\ rows'[Len(rows')].confidence = predictions'[1].confidence
               /\ \A k \in 2..Len(predictions') :
                    rows'[Len(rows')].confidence # predictions'[k].confidence
       /\ Len(rows') > Len(rows)
            => lastEvent' \in {"cameraSaved", "pickSaved"}]_vars

\* C15 witness: a second run has appended its record after the first.
C15_Witness ==
    /\ lastEvent \in {"cameraSaved", "pickSaved"}
    /\ Len(rows) = 2
    /\ rows[2].species = predictions[1].species

\* C16: ids are unique and strictly increasing in append order over the life
\* of the store: an appended record's id exceeds every id assigned before it,
\* those of purged records included.
C16_IdsNeverReused ==
    [][/\ seq' >= seq
       /\ Len(rows') > Len(rows)
            => (rows'[Len(rows')].id > seq /\ seq' = rows'[Len(rows')].id)
       /\ \A i, j \in 1..Len(rows') : i < j => rows'[i].id < rows'[j].id
       /\ \A i \in 1..Len(rows') : rows'[i].id <= seq']_vars

\* C16 witness: a record was appended after a purge that removed an earlier
\* one, and got a larger id.
C16_Witness ==
    /\ lastEvent \in {"cameraSaved", "pickSaved"}
    /\ Len(rows) = 1
    /\ rows[1].id = 2

\* The uri a classified run sets as the captured image.
UriOf(ev) == IF ev \in {"cameraSaved", "cameraSaveError"} THEN "photo" ELSE "asset"

\* C20: the held image and the held predictions belong together: predictions
\* are held only with an image, a run sets both in one step, 'Identify
\* Another' clears both, and no other step changes either.
C20_ImageAndPredictionsTogether ==
    [][/\ (predictions' # NoPredictions) <=> (capturedImage' # NoImage)
       /\ IF lastEvent' \in ClassifiedEvents
          THEN predictions' # NoPredictions /\ capturedImage' = UriOf(lastEvent')
          ELSE IF lastEvent' = "identifyAnother"
          THEN predictions' = NoPredictions /\ capturedImage' = NoImage
          ELSE predictions' = predictions /\ capturedImage' = capturedImage]_vars

\* C20 witness: a camera run that overlapped a pick completed last and holds
\* its own photo with its predictions.
C20_Witness ==
    /\ lastEvent = "cameraSaved"
    /\ runsStarted = 2
    /\ capturedImage = "photo"
    /\ predictions # NoPredictions
    /\ Len(rows) = 2

\* C17: every result of simulateInference has between 1 and K entries, its
\* confidences are in non-increasing order with the first the maximum, and
\* each confidence is within [0, 1] (0..10000 in units of 1/10000).
C17_InferenceRankedAndBounded ==
    lastEvent = "simulateInference"
        => /\ Len(predictions) >= 1 /\ Len(predictions) <= TopK
           /\ \A i, j \in 1..Len(predictions) :
                i < j => predictions[i].confidence >= predictions[j].confidence
           /\ \A i \in 1..Len(predictions) :
                /\ predictions[1].confidence >= predictions[i].confidence
                /\ predictions[i].confidence >= 0
                /\ predictions[i].confidence <= 10000

\* C17 witness: a result drawn at the top of all three confidence bands, from
\* a label index whose successors wrap around the label set.
C17_Witness ==
    /\ lastEvent = "simulateInference"
    /\ predictions[1].confidence > 9000
    /\ predictions[2].confidence > 600
    /\ predictions[3].confidence > 200
    /\ predictions[2].species > predictions[3].species

\* C18: schema creation is idempotent: initDatabase run over an existing
\* table leaves the table in place and its rows, ids and every query result
\* unchanged.
C18_InitDatabaseIdempotent ==
    [][lastEvent' \in {"initializeApp", "permissionGranted"}
         => /\ tableExists => tableExists'
            /\ rows' = rows
            /\ seq' = seq
            /\ ListRecent(rows') = ListRecent(rows)]_vars

\* C18 witness: initDatabase has run on a later app start, over a table that
\* holds the records of earlier sessions.
C18_Witness ==
    /\ lastEvent = "permissionGranted"
    /\ initPc = "awaitModel"
    /\ tableExists
    /\ Len(rows) = HistoryLimit

\* C19: while History is showing, and right after a successful append, the
\* displayed history is a result of the history query over the store (its most
\* recent records, at most 20), provided no history read has failed.
C19_HistoryReflectsStore ==
    ((activeTab = "history" \/ lastEvent \in {"cameraSaved", "pickSaved"})
       /\ ~readFailed)
        => (history \in ListRecent(rows) /\ Len(history) <= HistoryLimit)

\* C19 witness: History shows 20 records of a store that holds more than 20,
\* the last of them appended in this session.
C19_Witness ==
    /\ activeTab = "history"
    /\ ~readFailed
    /\ Len(rows) > HistoryLimit
    /\ Len(history) = HistoryLimit
    /\ history[1] = rows[Len(rows)]

\* C21: when every camera or gallery call settles, every started run finishes
\* and isLoading returns to false: from any state with a run in progress the
\* program reaches a state with no run in progress and isLoading false, on
\* every path (photo, no photo, asset, cancelled pick, thrown error).
C21_RunsFinishAndLoadingEnds ==
    (ActiveRuns > 0) ~> (ActiveRuns = 0 /\ ~isLoading)

\* C21 witness: a capture that failed was the last run to finish, and the
\* capture button is enabled again.
C21_Witness ==
    /\ lastEvent \in {"cameraNoPhoto", "cameraThrow"}
    /\ runsStarted = MaxRuns
    /\ ActiveRuns = 0
    /\ ~isLoading
    /\ UIEnabled
    /\ activeTab = "camera"

====
